---- MODULE Spec2Model ----
(***************************************************************************)
(* cargo-audit, binary_type_filter.rs: removing from a rustsec::Report the *)
(* advisories that cannot affect a binary of a given container format.     *)
(*                                                                         *)
(*   Spec      a caller that audits one binary: it either filters a report *)
(*             (filter_report_by_binary_type, possibly again on the        *)
(*             result) or asks the predicate about one advisory            *)
(*             (advisory_applicable_to_binary).  Each call is one step.    *)
(*   SpecCell  several threads calling apple_OSs() concurrently; the steps *)
(*             are those of OnceCell::get_or_init.                         *)
(***************************************************************************)
EXTENDS Integers, Sequences, FiniteSets, TLC

VARIABLES
    entry_point,  \* which function the caller invokes: "report", "advisory", "apple_OSs"
    binary_type,  \* the binfarce::Format of the binary under audit
    vulns,        \* report.vulnerabilities: [list, count, found]
    calls,        \* history: report.vulnerabilities on entry to each call of the filter
    panicked,     \* the assert_eq! of the filter failed
    affected,     \* the Option<Affected> handed to advisory_applicable_to_binary
    result,       \* Option<bool>: what advisory_applicable_to_binary returned
    INSTANCE_,    \* static INSTANCE: OnceCell<BTreeSet<OS>> of apple_OSs
    pc,           \* per thread: position inside apple_OSs / get_or_init
    ret,          \* per thread: None, or Some(the slot as the last apple_OSs() call read it)
    ncalls,       \* per thread: calls of apple_OSs() started
    initRuns      \* completed runs of the initializer closure

vars == <<entry_point, binary_type, vulns, calls, panicked, affected, result,
          INSTANCE_, pc, ret, ncalls, initRuns>>

----------------------------------------------------------------------------
(* Bounds *)

MaxVulns == 4

MaxOsLen == 3

MaxCalls == 2

NumThreads == 3

Threads == 1 .. NumThreads

----------------------------------------------------------------------------
(* Option<T>: None is the empty sequence, Some(x) the one-element sequence *)

None == << >>

Some(x) == << x >>

Range(s) == { s[i] : i \in DOMAIN s }

SeqsUpTo(S, n) == UNION { [1 .. k -> S] : k \in 0 .. n }

----------------------------------------------------------------------------
(* binfarce::Format *)

ByteOrders == { "LittleEndian", "BigEndian" }

PE == [tag |-> "PE", byte_order |-> "-"]

Macho == [tag |-> "Macho", byte_order |-> "-"]

Elf32(byte_order) == [tag |-> "Elf32", byte_order |-> byte_order]

Elf64(byte_order) == [tag |-> "Elf64", byte_order |-> byte_order]

Unknown == [tag |-> "Unknown", byte_order |-> "-"]

ElfFormats == { Elf32(b) : b \in ByteOrders } \cup { Elf64(b) : b \in ByteOrders }

Formats == { PE, Macho, Unknown } \cup ElfFormats

----------------------------------------------------------------------------
(* rustsec::platforms: the OS identifiers and the platform registry.  A      *)
(* target triple is kept as its sequence of components; the pattern          *)
(* "*apple*" matches a triple that has the text apple in it, which for the   *)
(* registry's triples is a triple with the vendor component apple.           *)

OS == { "Windows", "MacOS", "iOS", "Linux", "FreeBSD" }

Platform(triple, os) == [target_triple |-> triple, target_os |-> os]

ALL_PLATFORMS ==
    { Platform(<<"x86_64", "pc", "windows", "msvc">>, "Windows"),
      Platform(<<"x86_64", "apple", "darwin">>, "MacOS"),
      Platform(<<"aarch64", "apple", "darwin">>, "MacOS"),
      Platform(<<"aarch64", "apple", "ios">>, "iOS"),
      Platform(<<"x86_64", "unknown", "linux", "gnu">>, "Linux"),
      Platform(<<"x86_64", "unknown", "freebsd">>, "FreeBSD") }

\* PlatformReq::from_str("*apple*"): any text, then apple, then any text
ApplePattern == <<"*", "apple", "*">>

\* PlatformReq::matches for a pattern of the shape * word *
matches(req, platform) ==
    \E i \in DOMAIN platform.target_triple : platform.target_triple[i] = req[2]

matching_platforms(req) == { p \in ALL_PLATFORMS : matches(req, p) }

----------------------------------------------------------------------------
(* apple_OSs and its OnceCell *)

INCOMPLETE == "INCOMPLETE"

RUNNING == "RUNNING"

COMPLETE == "COMPLETE"

EmptyCell == [state |-> INCOMPLETE, value |-> None]

\* the closure handed to get_or_init
apple_OSs_init == { p.target_os : p \in matching_platforms(ApplePattern) }

\* the set apple_OSs() returns in the current state (the cached one, if any)
apple_OSs ==
    IF INSTANCE_.state = COMPLETE THEN INSTANCE_.value[1] ELSE apple_OSs_init

\* the cell after a call of apple_OSs() that ran to its end with no other
\* thread in it
get_or_init(cell) ==
    IF cell.state = COMPLETE THEN cell
    ELSE [state |-> COMPLETE, value |-> Some(apple_OSs_init)]

----------------------------------------------------------------------------
(* at_least_one_os_runs_binary, one definition per match arm *)

contains(os_list, os) == \E i \in DOMAIN os_list : os_list[i] = os

\* PE compared against the one-element list instead of searched
PE_arm_exact(os_list) == os_list = <<"Windows">>

PE_arm(os_list) == contains(os_list, "Windows")

\* Macho with all() in place of any()
Macho_arm_all(os_list) == \A i \in DOMAIN os_list : os_list[i] \in apple_OSs

Macho_arm(os_list) == \E i \in DOMAIN os_list : os_list[i] \in apple_OSs

\* Elf without the exclusion of the Apple OSs
Elf_arm_windows_only(os_list) == \E i \in DOMAIN os_list : os_list[i] # "Windows"

Elf_arm(os_list) ==
    \E i \in DOMAIN os_list : os_list[i] # "Windows" /\ ~(os_list[i] \in apple_OSs)

\* Unknown taken as "runs nowhere"
Unknown_arm_false(os_list) == FALSE

Unknown_arm(os_list) == TRUE

at_least_one_os_runs_binary(bt, os_list) ==
    CASE bt.tag = "PE" -> PE_arm(os_list)
      [] bt.tag = "Macho" -> Macho_arm(os_list)
      [] bt.tag \in { "Elf32", "Elf64" } -> Elf_arm(os_list)
      [] bt.tag = "Unknown" -> Unknown_arm(os_list)

\* the predicate without the is_empty() test of line 21
advisory_applicable_to_binary_no_empty(bt, aff) ==
    IF aff # None THEN at_least_one_os_runs_binary(bt, aff[1].os) ELSE TRUE

advisory_applicable_to_binary(bt, aff) ==
    IF aff # None
    THEN IF aff[1].os = << >>
         THEN TRUE
         ELSE at_least_one_os_runs_binary(bt, aff[1].os)
    ELSE TRUE

\* whether evaluating the predicate calls apple_OSs() at all.  Macho asks it
\* for the first OS of the list; Elf asks it for an OS only when that OS is
\* not Windows (&& short-circuits), and any() stops at the first OS for which
\* the closure is true, before which every OS that is not Windows was asked.
calls_apple_OSs(bt, aff) ==
    /\ aff # None
    /\ aff[1].os # << >>
    /\ \/ bt.tag = "Macho"
       \/ /\ bt.tag \in { "Elf32", "Elf64" }
          /\ \E i \in DOMAIN aff[1].os : aff[1].os[i] # "Windows"

----------------------------------------------------------------------------
(* filter_report_by_binary_type *)

\* Vec::swap_remove: the last element takes the place of the removed one
swap_remove(list, i) ==
    IF i = Len(list) THEN SubSeq(list, 1, Len(list) - 1)
    ELSE [SubSeq(list, 1, Len(list) - 1) EXCEPT ![i] = list[Len(list)]]

\* a retain that removes with swap_remove, from index i on
RECURSIVE retain_from(_, _, _)
retain_from(list, bt, i) ==
    IF i > Len(list) THEN list
    ELSE IF advisory_applicable_to_binary(bt, list[i].affected)
         THEN retain_from(list, bt, i + 1)
         ELSE retain_from(swap_remove(list, i), bt, i)

retain_swap_remove(list, bt) == retain_from(list, bt, 1)

\* Vec::retain with the closure of line 13: one pass from the front, keeping
\* the elements the closure accepts
RECURSIVE retain(_, _)
retain(list, bt) ==
    IF list = << >> THEN << >>
    ELSE (IF advisory_applicable_to_binary(bt, Head(list).affected)
          THEN << Head(list) >> ELSE << >>) \o retain(Tail(list), bt)

\* the assertion compiled out
assert_eq_off(v) == TRUE

\* the assert_eq! of line 12
assert_eq_holds(v) == Len(v.list) = v.count

\* line 14 left out: count keeps its value
filtered_stale_count(bt, v) ==
    LET list == retain(v.list, bt)
    IN  [list |-> list, count |-> v.count, found |-> Len(list) # 0]

\* found computed from the list before the retain
filtered_found_early(bt, v) ==
    LET list == retain(v.list, bt)
    IN  [list |-> list, count |-> Len(list), found |-> Len(v.list) # 0]

\* lines 13 to 15: the vulnerabilities section after the retain
filtered(bt, v) ==
    LET list == retain(v.list, bt)
    IN  [list |-> list, count |-> Len(list), found |-> Len(list) # 0]

\* what the predicate's calls of apple_OSs() leave behind: with called, the
\* cell is COMPLETE afterwards and the closure ran if it was not before
apple_OSs_effect(called) ==
    /\ INSTANCE_' = IF called THEN get_or_init(INSTANCE_) ELSE INSTANCE_
    /\ initRuns' = IF called /\ INSTANCE_.state # COMPLETE THEN initRuns + 1 ELSE initRuns

filter_report_by_binary_type ==
    /\ entry_point = "report"
    /\ ~panicked
    /\ Len(calls) < MaxCalls
    /\ calls' = Append(calls, vulns)
    /\ IF assert_eq_holds(vulns)
       THEN /\ vulns' = filtered(binary_type, vulns)
            /\ apple_OSs_effect(\E i \in DOMAIN vulns.list :
                                    calls_apple_OSs(binary_type, vulns.list[i].affected))
            /\ UNCHANGED panicked
       ELSE /\ panicked' = TRUE
            /\ UNCHANGED <<vulns, INSTANCE_, initRuns>>
    /\ UNCHANGED <<entry_point, binary_type, affected, result, pc, ret, ncalls>>

\* one call of the predicate on its own
advisory_applicable_to_binary_call ==
    /\ entry_point = "advisory"
    /\ result = None
    /\ result' = Some(advisory_applicable_to_binary(binary_type, affected))
    /\ apple_OSs_effect(calls_apple_OSs(binary_type, affected))
    /\ UNCHANGED <<entry_point, binary_type, vulns, calls, panicked, affected,
                   pc, ret, ncalls>>

----------------------------------------------------------------------------
(* Inputs *)

OsLists == SeqsUpTo(OS, MaxOsLen)

Affecteds == { None } \cup { Some([os |-> l]) : l \in OsLists }

\* the affected sections the advisories of a report are drawn from
ReportAffecteds ==
    { None, Some([os |-> << >>]), Some([os |-> <<"Windows">>]),
      Some([os |-> <<"MacOS">>]), Some([os |-> <<"Linux">>]),
      Some([os |-> <<"MacOS", "Linux">>]) }

\* a vulnerability: the advisory matched (numbered by its place in the
\* report as the database produced it) and its affected section
Vulnerability(id, aff) == [id |-> id, affected |-> aff]

Lists ==
    UNION { { [i \in 1 .. n |-> Vulnerability(i, f[i])] : f \in [1 .. n -> ReportAffecteds] }
            : n \in 0 .. MaxVulns }

\* reports as the advisory matching may hand them over: count right or off
\* by one, found whatever
Reports ==
    { r \in [list : Lists, count : 0 .. MaxVulns + 1, found : BOOLEAN] :
        r.count \in { Len(r.list) - 1, Len(r.list), Len(r.list) + 1 } }

EmptyReport == [list |-> << >>, count |-> 0, found |-> FALSE]

Idle ==
    /\ pc = [t \in Threads |-> "idle"]
    /\ ret = [t \in Threads |-> None]
    /\ ncalls = [t \in Threads |-> 0]
    /\ initRuns = 0

InitReport ==
    /\ entry_point = "report"
    /\ binary_type \in Formats
    /\ vulns \in Reports
    /\ calls = << >>
    /\ panicked = FALSE
    /\ affected = None
    /\ result = None
    /\ INSTANCE_ = EmptyCell
    /\ Idle

InitAdvisory ==
    /\ entry_point = "advisory"
    /\ binary_type \in Formats
    /\ vulns = EmptyReport
    /\ calls = << >>
    /\ panicked = FALSE
    /\ affected \in Affecteds
    /\ result = None
    /\ INSTANCE_ = EmptyCell
    /\ Idle

Init == InitReport \/ InitAdvisory

Next ==
    \/ filter_report_by_binary_type
    \/ advisory_applicable_to_binary_call

Spec == Init /\ [][Next]_vars

----------------------------------------------------------------------------
(* apple_OSs() called from several threads: the steps of                    *)
(* OnceCell::get_or_init (fast path, then initialize_or_wait)               *)

\* a lazy cell that only tests "not yet COMPLETE" before running the closure
may_run_init_unlocked(cell) == cell.state # COMPLETE

\* the compare-exchange INCOMPLETE -> RUNNING succeeds: this thread is the
\* one to run the closure
may_run_init(cell) == cell.state = INCOMPLETE

apple_OSs_call(t) ==
    /\ entry_point = "apple_OSs"
    /\ pc[t] = "idle"
    /\ ncalls[t] < MaxCalls
    /\ ncalls' = [ncalls EXCEPT ![t] = @ + 1]
    /\ pc' = [pc EXCEPT ![t] = "get"]
    /\ UNCHANGED <<entry_point, binary_type, vulns, calls, panicked, affected,
                   result, INSTANCE_, ret, initRuns>>

\* get(): the fast path when the cell is already COMPLETE
get(t) ==
    /\ pc[t] = "get"
    /\ pc' = [pc EXCEPT ![t] =
                IF INSTANCE_.state = COMPLETE THEN "return" ELSE "initialize"]
    /\ UNCHANGED <<entry_point, binary_type, vulns, calls, panicked, affected,
                   result, INSTANCE_, ret, ncalls, initRuns>>

\* one turn of the loop of initialize_or_wait
initialize(t) ==
    /\ pc[t] = "initialize"
    /\ \/ /\ INSTANCE_.state = COMPLETE
          /\ pc' = [pc EXCEPT ![t] = "return"]
          /\ UNCHANGED INSTANCE_
       \/ /\ may_run_init(INSTANCE_)
          /\ INSTANCE_' = [INSTANCE_ EXCEPT !.state = RUNNING]
          /\ pc' = [pc EXCEPT ![t] = "closure"]
       \/ /\ INSTANCE_.state = RUNNING
          /\ pc' = [pc EXCEPT ![t] = "wait"]
          /\ UNCHANGED INSTANCE_
    /\ UNCHANGED <<entry_point, binary_type, vulns, calls, panicked, affected,
                   result, ret, ncalls, initRuns>>

\* wait(): parked until the running thread has left RUNNING
wait(t) ==
    /\ pc[t] = "wait"
    /\ INSTANCE_.state # RUNNING
    /\ pc' = [pc EXCEPT ![t] = "initialize"]
    /\ UNCHANGED <<entry_point, binary_type, vulns, calls, panicked, affected,
                   result, INSTANCE_, ret, ncalls, initRuns>>

\* the closure of lines 51 to 54 runs and its set is written to the slot
closure(t) ==
    /\ pc[t] = "closure"
    /\ INSTANCE_' = [INSTANCE_ EXCEPT !.value = Some(apple_OSs_init)]
    /\ initRuns' = initRuns + 1
    /\ pc' = [pc EXCEPT ![t] = "publish"]
    /\ UNCHANGED <<entry_point, binary_type, vulns, calls, panicked, affected,
                   result, ret, ncalls>>

\* the guard is dropped: the state becomes COMPLETE and the waiters are woken
publish(t) ==
    /\ pc[t] = "publish"
    /\ INSTANCE_' = [INSTANCE_ EXCEPT !.state = COMPLETE]
    /\ pc' = [pc EXCEPT ![t] = "return"]
    /\ UNCHANGED <<entry_point, binary_type, vulns, calls, panicked, affected,
                   result, ret, ncalls, initRuns>>

\* get_unchecked(): the reference to the slot's set is handed to the caller
return(t) ==
    /\ pc[t] = "return"
    /\ ret' = [ret EXCEPT ![t] = Some(INSTANCE_.value)]
    /\ pc' = [pc EXCEPT ![t] = "idle"]
    /\ UNCHANGED <<entry_point, binary_type, vulns, calls, panicked, affected,
                   result, INSTANCE_, ncalls, initRuns>>

InitCell ==
    /\ entry_point = "apple_OSs"
    /\ binary_type = Unknown
    /\ vulns = EmptyReport
    /\ calls = << >>
    /\ panicked = FALSE
    /\ affected = None
    /\ result = None
    /\ INSTANCE_ = EmptyCell
    /\ Idle

NextCell ==
    \E t \in Threads :
        \/ apple_OSs_call(t)
        \/ get(t)
        \/ initialize(t)
        \/ wait(t)
        \/ closure(t)
        \/ publish(t)
        \/ return(t)

SpecCell == InitCell /\ [][NextCell]_vars

----------------------------------------------------------------------------
(* Properties *)

\* the latest call of the filter returned (it did not panic)
Returned == entry_point = "report" /\ calls # << >> /\ ~panicked

\* report.vulnerabilities as it was on entry to the latest call
Entry == calls[Len(calls)]

\* the predicate was called on its own and has returned
Answered == entry_point = "advisory" /\ result # None

Unconstrained(aff) == aff = None \/ aff[1].os = << >>

Restricted(aff) == aff # None /\ aff[1].os # << >>

\* whether the vulnerability at place i of the entry list is in the list now
Kept(i) == \E k \in DOMAIN vulns.list : vulns.list[k] = Entry.list[i]

\* C1: a report that has count = list length on entry has, when the filter
\* returns, count = list length and found = (count # 0), whatever found was
\* on entry and whatever the binary format.
C1_CountAndFoundRestored ==
    (Returned /\ Entry.count = Len(Entry.list))
        => /\ vulns.count = Len(vulns.list)
           /\ vulns.found = (vulns.count # 0)

\* found was wrong on entry, and the call removed some but not all entries
C1_Witness ==
    /\ Returned
    /\ Entry.count = Len(Entry.list)
    /\ Entry.found # (Entry.count # 0)
    /\ vulns.list # << >>
    /\ Len(vulns.list) < Len(Entry.list)
    /\ vulns.found

\* C2: the list after the filter is exactly the subsequence of the entry
\* list at the places where the predicate is true: the k-th element now is
\* the element at the k-th such place, unmodified, and there are no others.
C2_StableFilter ==
    Returned =>
        LET keep == { i \in DOMAIN Entry.list :
                        advisory_applicable_to_binary(binary_type, Entry.list[i].affected) }
            place(k) == CHOOSE i \in keep : Cardinality({ j \in keep : j <= i }) = k
        IN  /\ Len(vulns.list) = Cardinality(keep)
            /\ \A k \in DOMAIN vulns.list : vulns.list[k] = Entry.list[place(k)]

\* two entries were kept around one that was removed, and the last was kept
C2_Witness ==
    /\ Returned
    /\ Len(vulns.list) >= 2
    /\ \E k \in 1 .. Len(vulns.list) - 1 : vulns.list[k].id + 1 < vulns.list[k + 1].id
    /\ Len(vulns.list) < Len(Entry.list)

\* C3: for every binary format, an advisory with no affected section or with
\* an empty affected.os list is judged applicable, and the filter keeps it.
C3_UnconstrainedKept ==
    /\ Answered /\ Unconstrained(affected) => result = Some(TRUE)
    /\ Returned =>
         \A i \in DOMAIN Entry.list : Unconstrained(Entry.list[i].affected) => Kept(i)

\* a PE report with both kinds of unconstrained advisory and a removed one
C3_Witness ==
    /\ Returned
    /\ binary_type = PE
    /\ \E i \in DOMAIN Entry.list : Entry.list[i].affected = None /\ Kept(i)
    /\ \E i \in DOMAIN Entry.list : Entry.list[i].affected = Some([os |-> << >>]) /\ Kept(i)
    /\ \E i \in DOMAIN Entry.list : ~Kept(i)

\* C4: for PE and a nonempty affected.os list the advisory is applicable
\* exactly when the list contains Windows; [Windows] is kept and
\* [MacOS, Linux] is removed.
C4_PE ==
    /\ (Answered /\ binary_type = PE /\ Restricted(affected))
         => /\ result[1] = ("Windows" \in Range(affected[1].os))
            /\ affected[1].os = <<"Windows">> => result[1]
            /\ affected[1].os = <<"MacOS", "Linux">> => ~result[1]
    /\ (Returned /\ binary_type = PE)
         => \A i \in DOMAIN Entry.list :
              Restricted(Entry.list[i].affected)
                => (Kept(i) <=> "Windows" \in Range(Entry.list[i].affected[1].os))

\* PE asked about a list with Windows behind another OS
C4_Witness ==
    /\ Answered
    /\ binary_type = PE
    /\ affected = Some([os |-> <<"Linux", "Windows">>])
    /\ result = Some(TRUE)

\* C5: for Macho and a nonempty affected.os list the advisory is applicable
\* exactly when some OS of the list is in the cached Apple platform set;
\* [Windows] and [Linux] are removed and [MacOS, Linux] is kept.
C5_Macho ==
    /\ (Answered /\ binary_type = Macho /\ Restricted(affected))
         => /\ INSTANCE_.state = COMPLETE
            /\ result[1] = (Range(affected[1].os) \cap INSTANCE_.value[1] # { })
            /\ affected[1].os \in { <<"Windows">>, <<"Linux">> } => ~result[1]
            /\ affected[1].os = <<"MacOS", "Linux">> => result[1]
    /\ (Returned /\ binary_type = Macho)
         => \A i \in DOMAIN Entry.list :
              Restricted(Entry.list[i].affected)
                => /\ INSTANCE_.state = COMPLETE
                   /\ Kept(i) <=>
                        (Range(Entry.list[i].affected[1].os) \cap INSTANCE_.value[1] # { })

\* Macho asked about [MacOS, Linux]
C5_Witness ==
    /\ Answered
    /\ binary_type = Macho
    /\ affected = Some([os |-> <<"MacOS", "Linux">>])
    /\ result = Some(TRUE)

\* the report of the end-to-end scenario
Scenario ==
    << Vulnerability(1, None),
       Vulnerability(2, Some([os |-> <<"Windows">>])),
       Vulnerability(3, Some([os |-> <<"MacOS">>])),
       Vulnerability(4, Some([os |-> <<"Linux">>])) >>

\* an OS on which an ELF binary is taken to run
ElfOS(os) == os # "Windows" /\ os \notin apple_OSs_init

\* C6: for Elf32 and Elf64, whatever the byte order, and a nonempty
\* affected.os list, the advisory is applicable exactly when some OS of the
\* list is neither Windows nor in the Apple platform set; all four Elf
\* formats give the same answer; the scenario report filtered as Elf64 keeps
\* entries 1 and 4, with count 2 and found true.
C6_Elf ==
    /\ (Answered /\ binary_type \in ElfFormats /\ Restricted(affected))
         => /\ result[1] = (\E os \in Range(affected[1].os) : ElfOS(os))
            /\ \A f \in ElfFormats :
                 advisory_applicable_to_binary(f, affected) = result[1]
    /\ (Returned /\ binary_type \in ElfFormats)
         => /\ \A i \in DOMAIN Entry.list :
                 Restricted(Entry.list[i].affected)
                   => (Kept(i) <=> \E os \in Range(Entry.list[i].affected[1].os) : ElfOS(os))
            /\ \A f \in ElfFormats : filtered(f, Entry) = vulns
    /\ (Returned /\ binary_type.tag = "Elf64" /\ Entry.list = Scenario)
         => vulns = [list |-> << Scenario[1], Scenario[4] >>, count |-> 2, found |-> TRUE]

\* the scenario report has been filtered as Elf64
C6_Witness ==
    /\ Returned
    /\ Len(calls) = 1
    /\ binary_type.tag = "Elf64"
    /\ Entry.list = Scenario
    /\ Len(vulns.list) = 2

\* C7: for Unknown every advisory is applicable whatever its affected.os
\* list, and filtering a valid report removes nothing: list and count are
\* as on entry.
C7_Unknown ==
    /\ (Answered /\ binary_type = Unknown) => result = Some(TRUE)
    /\ (Returned /\ binary_type = Unknown)
         => /\ vulns.list = Entry.list
            /\ vulns.count = Entry.count

\* an Unknown report with Windows-only, Apple-only and Linux-only advisories
C7_Witness ==
    /\ Returned
    /\ binary_type = Unknown
    /\ \A os \in { "Windows", "MacOS", "Linux" } :
         \E i \in DOMAIN vulns.list : vulns.list[i].affected = Some([os |-> << os >>])

\* C8: a second call of the filter with the same binary format, on the
\* report the first call left, removes nothing: list, count and found are
\* those the first call left.
C8_Idempotent ==
    (Returned /\ Len(calls) >= 2) => vulns = Entry

\* the first call removed some entries, and emptied or did not empty the
\* list; then the second call returned
C8_Witness ==
    /\ Returned
    /\ Len(calls) = 2
    /\ Len(calls[2].list) < Len(calls[1].list)
    /\ calls[1].found # calls[2].found

\* C9: when count differs from the list length on entry the filter panics
\* with nothing changed: no vulnerability removed, count and found as they
\* were, so the mismatch stays.
C9_MismatchPanics ==
    (entry_point = "report" /\ calls # << >> /\ Entry.count # Len(Entry.list))
        => /\ panicked
           /\ vulns = Entry
           /\ INSTANCE_ = EmptyCell
           /\ initRuns = 0

\* a panic on a report from which the filter would have removed an entry
C9_Witness ==
    /\ panicked
    /\ vulns.count # Len(vulns.list)
    /\ vulns.found # (vulns.count # 0)
    /\ \E i \in DOMAIN vulns.list :
         ~advisory_applicable_to_binary(binary_type, vulns.list[i].affected)

\* C10: however the calls of apple_OSs() interleave, the initializer runs to
\* its end at most once, every call returns the same initialized set, and
\* the cell's set, once written, never changes.
C10_InitOnce ==
    /\ [](/\ initRuns <= 1
          /\ \A t \in Threads : ret[t] # None => ret[t][1] # None
          /\ \A t, u \in Threads : (ret[t] # None /\ ret[u] # None) => ret[t] = ret[u])
    /\ [][INSTANCE_.value # None => INSTANCE_'.value = INSTANCE_.value]_vars
    /\ [][INSTANCE_.state = COMPLETE => INSTANCE_' = INSTANCE_]_vars

\* a thread that found the cell RUNNING on its first access is still parked
\* while the thread that ran the initializer has published and another call
\* has returned
C10_Witness ==
    /\ initRuns = 1
    /\ \E t, u \in Threads :
         /\ pc[t] = "wait"
         /\ ncalls[t] = 1
         /\ ret[u] = Some(Some(apple_OSs_init))

====
